---------------------------- MODULE Spec2Model ----------------------------
(***************************************************************************)
(* A model of conda-rich's reporter backend (src/conda_rich/hooks.py):     *)
(* the renderer's quiet/interactive dispatch, the two progress bars, the   *)
(* two spinners and the detail view.                                       *)
(*                                                                         *)
(* Text is modelled by TLA+ strings (Len, \o and SubSeq act on them as on   *)
(* Python's str).  A fraction is an integer number of hundredths, so that  *)
(* Python's `fraction == 1` is `fraction = 100`.  rich's TaskID, which      *)
(* counts from 0, is modelled by the task's position (from 1) in the       *)
(* Progress object's task list.                                            *)
(***************************************************************************)
EXTENDS Integers, Sequences, FiniteSets, TLC

VARIABLES
    quiet,      \* conda.base.context.context.quiet
    progress,   \* the rich Progress objects (shared display contexts)
    bars,       \* the progress bar handles constructed so far
    spinners,   \* the spinner handles constructed so far
    lives,      \* the rich Live surfaces started by interactive spinners
    stdout,     \* everything written to sys.stdout
    ev,         \* the last call made and how it ended
    view        \* the last detail_view call: its data and its result

vars == <<quiet, progress, bars, spinners, lives, stdout, ev, view>>

(***************************************************************************)
(* Bounds of the model.                                                    *)
(***************************************************************************)
MaxBars == 2
MaxSpinners == 2
MaxEntries == 2

\* The Progress objects, named in the order of their construction.
ProgressOrder == <<"P1">>
ProgressIds == {ProgressOrder[i] : i \in DOMAIN ProgressOrder}
Descriptions == {"X", "Test", "numpy-2.1.tar.bz2"}
Fractions == {0, 50, 100, 125}

None == "None"

(***************************************************************************)
(* The last call: the operation, the handle it was made on (0: none), its  *)
(* argument (update_to's fraction, the error __exit__ is given), its       *)
(* context_manager argument, the calls it made in                          *)
(* order (kept for __exit__), what it returned and the exception its       *)
(* caller sees (NoExc: none).                                              *)
(***************************************************************************)
NoExc == [type |-> "", msg |-> ""]

Event(op, obj, arg, ret, exc) ==
    [op |-> op, obj |-> obj, arg |-> arg, cm |-> None, steps |-> <<>>,
     ret |-> ret, exc |-> exc]

\* The last call, a construction given context_manager.
Construction(op, obj, context_manager, ret, exc) ==
    [Event(op, obj, 0, ret, exc) EXCEPT !.cm = context_manager]

(***************************************************************************)
(* rich.progress.Progress, as far as hooks.py drives it.                   *)
(***************************************************************************)
NewTask(description, start) ==
    [description |-> description, completed |-> 0, visible |-> TRUE,
     started |-> start, stopped |-> FALSE]

\* Progress.add_task(description, total=1): a new task row at the end.
AddTask(p, description) ==
    [progress EXCEPT ![p].tasks = Append(@, NewTask(description, TRUE))]

\* Progress.update(task, completed=fraction)
UpdateCompleted(prog, p, t, fraction) ==
    [prog EXCEPT ![p].tasks[t].completed = fraction]

\* Progress.update(task, visible=v)
UpdateVisible(prog, p, t, v) ==
    [prog EXCEPT ![p].tasks[t].visible = v]

\* A close() that tears the whole display down, as Progress.stop() does.
StopTaskAndDisplay(p, t) ==
    [progress EXCEPT ![p].tasks[t].started = TRUE,
                     ![p].tasks[t].stopped = TRUE,
                     ![p].live = FALSE]

\* Progress.stop_task(task): the task's stop time is set (and its start
\* time, had it none); nothing else of the Progress object changes.
StopTask(p, t) ==
    [progress EXCEPT ![p].tasks[t].started = TRUE,
                     ![p].tasks[t].stopped = TRUE]

(***************************************************************************)
(* The host changes context.quiet.                                         *)
(***************************************************************************)
SetQuiet(b) ==
    /\ quiet # b
    /\ quiet' = b
    /\ ev' = Event("set_quiet", 0, 0, None, NoExc)
    /\ UNCHANGED <<progress, bars, spinners, lives, stdout, view>>

(***************************************************************************)
(* Shared display contexts.                                                *)
(***************************************************************************)
\* The object the next Progress(...) call constructs.
IsFresh(p) ==
    \E i \in DOMAIN ProgressOrder :
        /\ p = ProgressOrder[i]
        /\ ~progress[p].made
        /\ \A j \in 1..(i - 1) : progress[ProgressOrder[j]].made

\* Progress(): a display context that is not (yet) live.
ProgressNew(p) ==
    /\ IsFresh(p)
    /\ progress' = [progress EXCEPT ![p].made = TRUE]
    /\ ev' = Event("Progress", 0, 0, p, NoExc)
    /\ UNCHANGED <<quiet, bars, spinners, lives, stdout, view>>

\* with renderer.progress_bar_context_manager() as progress: entry.
ContextManagerEnter(p) ==
    /\ IsFresh(p)
    /\ progress' = [progress EXCEPT ![p].made = TRUE, ![p].live = TRUE]
    /\ ev' = Event("progress_bar_context_manager.enter", 0, 0, p, NoExc)
    /\ UNCHANGED <<quiet, bars, spinners, lives, stdout, view>>

\* ... and the exit of that scope: the display is torn down.
ContextManagerExit(p) ==
    /\ progress[p].live
    /\ progress' = [progress EXCEPT ![p].live = FALSE]
    /\ ev' = Event("progress_bar_context_manager.exit", 0, 0, p, NoExc)
    /\ UNCHANGED <<quiet, bars, spinners, lives, stdout, view>>

(***************************************************************************)
(* QuietProgressBar                                                        *)
(***************************************************************************)
\* The line without its line break.
QuietProgressBarLineOpen(description) ==
    "...downloading " \o description \o "..."

\* sys.stdout.write(f"...downloading {description}...\n")
QuietProgressBarLine(description) ==
    "...downloading " \o description \o "...\n"

\* ProgressBarBase.__init__ keeps the description; QuietProgressBar.__init__
\* writes its line.
QuietProgressBarInit(op, description) ==
    /\ stdout' = stdout \o QuietProgressBarLine(description)
    /\ bars' = Append(bars,
          [cls |-> "QuietProgressBar", description |-> description,
           progress |-> None, task |-> 0, visible_when_finished |-> FALSE])
    /\ ev' = Event(op, Len(bars) + 1, 0, "QuietProgressBar", NoExc)
    /\ UNCHANGED progress

(***************************************************************************)
(* RichProgressBar                                                         *)
(***************************************************************************)
MisconfiguredMessage ==
    "Rich is configured, but there is no progress bar available"

\* isinstance(context_manager, Progress)
IsProgress(context_manager) ==
    context_manager \in ProgressIds

\* A constructor that leaves self.progress None instead of raising.
RichProgressBarInitSilent(op, description, context_manager, visible_when_finished) ==
    /\ progress' = IF IsProgress(context_manager)
                   THEN AddTask(context_manager, description)
                   ELSE progress
    /\ bars' = Append(bars,
          [cls |-> "RichProgressBar", description |-> description,
           progress |-> IF IsProgress(context_manager)
                        THEN context_manager ELSE None,
           task |-> IF IsProgress(context_manager)
                    THEN Len(progress[context_manager].tasks) + 1 ELSE 0,
           visible_when_finished |-> visible_when_finished])
    /\ ev' = Construction(op, Len(bars) + 1, context_manager,
                                "RichProgressBar", NoExc)
    /\ UNCHANGED stdout

\* RichProgressBar.__init__: raises before add_task when context_manager is
\* no Progress instance.
RichProgressBarInit(op, description, context_manager, visible_when_finished) ==
    /\ IF IsProgress(context_manager)
       THEN /\ progress' = AddTask(context_manager, description)
            /\ bars' = Append(bars,
                  [cls |-> "RichProgressBar", description |-> description,
                   progress |-> context_manager,
                   task |-> Len(progress[context_manager].tasks) + 1,
                   visible_when_finished |-> visible_when_finished])
            /\ ev' = Construction(op, Len(bars) + 1, context_manager,
                                "RichProgressBar", NoExc)
       ELSE /\ ev' = Construction(op, 0, context_manager, None,
                           [type |-> "CondaError", msg |-> MisconfiguredMessage])
            /\ UNCHANGED <<progress, bars>>
    /\ UNCHANGED stdout

\* What a caller can pass as context_manager.
ContextManagers ==
    {None, "NotAProgress"} \cup {p \in ProgressIds : progress[p].made}

\* QuietProgressBar(description), called directly.
NewQuietProgressBar(description) ==
    /\ Len(bars) < MaxBars
    /\ QuietProgressBarInit("QuietProgressBar", description)
    /\ UNCHANGED <<quiet, spinners, lives, view>>

\* RichProgressBar(description, context_manager, visible_when_finished),
\* called directly.
NewRichProgressBar(description, context_manager, visible_when_finished) ==
    /\ Len(bars) < MaxBars
    /\ RichProgressBarInit("RichProgressBar", description, context_manager,
                           visible_when_finished)
    /\ UNCHANGED <<quiet, spinners, lives, view>>

IsRich(b) == bars[b].cls = "RichProgressBar"

TaskOf(b) == progress[bars[b].progress].tasks[bars[b].task]

\* update_to that always hides the task on completion.
RichUpdateToHide(b, fraction) ==
    LET p == bars[b].progress
        t == bars[b].task
        done == UpdateCompleted(progress, p, t, fraction)
    IN  IF fraction = 100 THEN UpdateVisible(done, p, t, FALSE) ELSE done

\* RichProgressBar.update_to: the Progress objects after the call.
RichUpdateTo(b, fraction) ==
    LET p == bars[b].progress
        t == bars[b].task
        done == UpdateCompleted(progress, p, t, fraction)
    IN  IF fraction = 100
        THEN UpdateVisible(done, p, t, bars[b].visible_when_finished)
        ELSE done

\* bar.update_to(fraction) on either kind of bar.
UpdateTo(b, fraction) ==
    /\ progress' = IF IsRich(b) /\ bars[b].progress # None
                   THEN RichUpdateTo(b, fraction)
                   ELSE progress
    /\ ev' = Event("update_to", b, fraction, None, NoExc)
    /\ UNCHANGED <<quiet, bars, spinners, lives, stdout, view>>

\* bar.refresh(): Progress.refresh() redraws the task rows on the terminal
\* when the display is live; no task and no handle changes.
Refresh(b) ==
    /\ ev' = Event("refresh", b, 0, None, NoExc)
    /\ UNCHANGED <<quiet, progress, bars, spinners, lives, stdout, view>>

\* bar.close() on either kind of bar.
Close(b) ==
    /\ progress' = IF IsRich(b) /\ bars[b].progress # None
                   THEN StopTask(bars[b].progress, bars[b].task)
                   ELSE progress
    /\ ev' = Event("close", b, 0, None, NoExc)
    /\ UNCHANGED <<quiet, bars, spinners, lives, stdout, view>>

(***************************************************************************)
(* Spinners.  A handle is used by `with spinner: body`: __enter__, the     *)
(* body, then __exit__ with the error the body raised (NoExc: none).  A    *)
(* handle's in_scope tells that its caller is inside the body.             *)
(***************************************************************************)
Messages == {"test"}
FailMessages == {"failed\n", "testing fail message"}
BodyErrors == {[type |-> "Exception", msg |-> "Test fail"]}

\* SpinnerBase.__init__ and RichSpinner.__init__
SpinnerInit(op, cls, message, fail_message) ==
    /\ spinners' = Append(spinners,
          [cls |-> cls, message |-> message, fail_message |-> fail_message,
           live_ctx |-> 0, live |-> 0, in_scope |-> FALSE])
    /\ ev' = Event(op, Len(spinners) + 1, 0, cls, NoExc)
    /\ UNCHANGED <<lives, stdout>>

NewQuietSpinner(message, fail_message) ==
    /\ Len(spinners) < MaxSpinners
    /\ SpinnerInit("QuietSpinner", "QuietSpinner", message, fail_message)
    /\ UNCHANGED <<quiet, progress, bars, view>>

NewRichSpinner(message, fail_message) ==
    /\ Len(spinners) < MaxSpinners
    /\ SpinnerInit("RichSpinner", "RichSpinner", message, fail_message)
    /\ UNCHANGED <<quiet, progress, bars, view>>

\* What the with statement raises to its caller: the body's error, unless
\* __exit__ returned a true value.
Propagated(exit_ret, exc) ==
    IF exit_ret = "True" THEN NoExc ELSE exc

\* QuietSpinner.__enter__: two writes, each flushed.
QuietSpinnerEnterText(message) ==
    (message \o ": ") \o "...working... "

\* An exit that writes fail_message as it is.
QuietSpinnerExitTextBare(fail_message, exc) ==
    IF exc # NoExc THEN fail_message ELSE "done\n"

\* QuietSpinner.__exit__: what it writes.
QuietSpinnerExitText(fail_message, exc) ==
    IF exc # NoExc THEN fail_message \o "\n" ELSE "done\n"

\* Neither __exit__ has a return statement: both return None.
SpinnerExitReturn == None

\* console.print(f"{self.message} (done)"): the text and a line break.
RichSpinnerExitText(message) ==
    (message \o " (done)") \o "\n"

\* An exit that prints and leaves the live surface running.
RichSpinnerExitLeak(s) ==
    [steps |-> <<"console.print">>,
     out |-> IF spinners[s].live_ctx # 0
             THEN RichSpinnerExitText(spinners[s].message) ELSE "",
     lives |-> lives]

\* RichSpinner.__exit__: the calls it makes in order, what it prints and
\* the Live surfaces after it.
RichSpinnerExit(s) ==
    IF spinners[s].live_ctx # 0
    THEN [steps |-> <<"console.print", "live_ctx.__exit__">>,
          out |-> RichSpinnerExitText(spinners[s].message),
          lives |-> [lives EXCEPT ![spinners[s].live_ctx].started = FALSE]]
    ELSE [steps |-> <<>>, out |-> "", lives |-> lives]

MaxLives == 2
MaxOut == 40

\* Some Live surface is running on the console.
LiveActive == \E i \in DOMAIN lives : lives[i].started

\* with spinner: the entry.  An interactive spinner makes a Progress with
\* one task that is not started, wraps it in a Live and starts that.  When
\* another Live is already running, rich either nests the new one or (in
\* its older releases) raises LiveError before it is started.
Enter(s) ==
    /\ ~spinners[s].in_scope
    /\ Len(stdout) < MaxOut
    /\ IF spinners[s].cls = "QuietSpinner"
       THEN /\ stdout' = stdout \o QuietSpinnerEnterText(spinners[s].message)
            /\ spinners' = [spinners EXCEPT ![s].in_scope = TRUE]
            /\ ev' = Event("enter", s, 0, None, NoExc)
            /\ UNCHANGED lives
       ELSE /\ Len(lives) < MaxLives
            /\ \/ /\ lives' = Append(lives,
                        [started |-> TRUE,
                         description |-> spinners[s].message,
                         task_started |-> FALSE])
                  /\ spinners' = [spinners EXCEPT
                        ![s].live_ctx = Len(lives) + 1,
                        ![s].live = Len(lives) + 1,
                        ![s].in_scope = TRUE]
                  /\ ev' = Event("enter", s, 0, None, NoExc)
               \/ /\ LiveActive
                  /\ lives' = Append(lives,
                        [started |-> FALSE,
                         description |-> spinners[s].message,
                         task_started |-> FALSE])
                  /\ spinners' = [spinners EXCEPT
                        ![s].live_ctx = Len(lives) + 1]
                  /\ ev' = Event("enter", s, 0, None,
                        [type |-> "LiveError",
                         msg |-> "Only one live display may be active at once"])
            /\ UNCHANGED stdout
    /\ UNCHANGED <<quiet, progress, bars, view>>

\* with spinner: the exit, after a body that raised exc (NoExc: returned).
Exit(s, exc) ==
    /\ spinners[s].in_scope
    /\ IF spinners[s].cls = "QuietSpinner"
       THEN /\ stdout' = stdout \o
                    QuietSpinnerExitText(spinners[s].fail_message, exc)
            /\ ev' = Event("exit", s, exc, SpinnerExitReturn,
                           Propagated(SpinnerExitReturn, exc))
            /\ UNCHANGED lives
       ELSE /\ stdout' = stdout \o RichSpinnerExit(s).out
            /\ lives' = RichSpinnerExit(s).lives
            /\ ev' = [Event("exit", s, exc, SpinnerExitReturn,
                             Propagated(SpinnerExitReturn, exc))
                          EXCEPT !.steps = RichSpinnerExit(s).steps]
    /\ spinners' = [spinners EXCEPT ![s].in_scope = FALSE]
    /\ UNCHANGED <<quiet, progress, bars, view>>

(***************************************************************************)
(* RichReporterRenderer                                                    *)
(***************************************************************************)
\* The decision of the first progress_bar call, kept for the later ones.
QuietAtFirstCall ==
    IF Len(bars) > 0 THEN bars[1].cls = "QuietProgressBar"
    ELSE IF Len(spinners) > 0 THEN spinners[1].cls = "QuietSpinner"
    ELSE quiet

\* context.quiet, read where the renderer dispatches.
ContextQuiet == quiet

\* renderer.progress_bar(description, context_manager=...,
\*                       visible_when_finished=...)
RendererProgressBar(description, context_manager, visible_when_finished) ==
    /\ Len(bars) < MaxBars
    /\ IF ContextQuiet
       THEN QuietProgressBarInit("progress_bar", description)
       ELSE RichProgressBarInit("progress_bar", description, context_manager,
                                visible_when_finished)
    /\ UNCHANGED <<quiet, spinners, lives, view>>

\* renderer.spinner(message, fail_message)
RendererSpinner(message, fail_message) ==
    /\ Len(spinners) < MaxSpinners
    /\ IF ContextQuiet
       THEN SpinnerInit("spinner", "QuietSpinner", message, fail_message)
       ELSE SpinnerInit("spinner", "RichSpinner", message, fail_message)
    /\ UNCHANGED <<quiet, progress, bars, view>>

(***************************************************************************)
(* detail_view.  data is a dict: a sequence of entries with distinct keys, *)
(* in insertion order.  A value is a str, an int or a bool.                *)
(***************************************************************************)
Keys == {"a", "field_one", "x\ny"}
Values == {[t |-> "str", v |-> "one"], [t |-> "str", v |-> "p\nq"],
           [t |-> "int", v |-> 7], [t |-> "bool", v |-> TRUE]}

Dicts ==
    {d \in UNION {[1..n -> [key : Keys, value : Values]] : n \in 0..MaxEntries} :
        \A i, j \in DOMAIN d : d[i].key = d[j].key => i = j}

\* format(value, ""): str(value)
Str(value) ==
    CASE value.t = "str" -> value.v
      [] value.t = "int" -> ToString(value.v)
      [] value.t = "bool" -> IF value.v THEN "True" ELSE "False"

RECURSIVE Spaces(_)
Spaces(n) == IF n <= 0 THEN "" ELSE " " \o Spaces(n - 1)

\* f"{header:<{width}}": the padding after the text.
AlignLeft(header, width) ==
    header \o Spaces(width - Len(header))

\* f"{header:>{width}}": the text moved to the right end of a field of
\* width characters, spaces before it; a longer text is kept whole.
AlignRight(header, width) ==
    Spaces(width - Len(header)) \o header

\* max(map(len, data.keys())), data not empty
LongestHeader(data) ==
    CHOOSE n \in {Len(data[i].key) : i \in DOMAIN data} :
        \A i \in DOMAIN data : Len(data[i].key) <= n

\* f" {header:>{longest_header}} : {value}"
Row(header, value, longest_header) ==
    ((" " \o AlignRight(header, longest_header)) \o " : ") \o Str(value)

\* "\n".join(parts)
RECURSIVE Join(_)
Join(parts) ==
    IF Len(parts) = 0 THEN ""
    ELSE IF Len(parts) = 1 THEN parts[1]
    ELSE (parts[1] \o "\n") \o Join(Tail(parts))

TableParts(data) ==
    (<<"">> \o [i \in DOMAIN data |->
                   Row(data[i].key, data[i].value, LongestHeader(data))])
        \o <<"\n">>

\* renderer.detail_view(data); max() of no keys raises ValueError.
DetailView(data) ==
    /\ IF Len(data) = 0
       THEN /\ view' = [data |-> data, out |-> ""]
            /\ ev' = Event("detail_view", 0, 0, None,
                  [type |-> "ValueError",
                   msg |-> "max() arg is an empty sequence"])
       ELSE /\ view' = [data |-> data, out |-> Join(TableParts(data))]
            /\ ev' = Event("detail_view", 0, 0, "str", NoExc)
    /\ UNCHANGED <<quiet, progress, bars, spinners, lives, stdout>>

(***************************************************************************)
(* Initial state: nothing constructed, nothing written.                    *)
(***************************************************************************)
Init ==
    /\ quiet = FALSE
    /\ progress = [p \in ProgressIds |->
                      [made |-> FALSE, live |-> FALSE, tasks |-> <<>>]]
    /\ bars = <<>>
    /\ spinners = <<>>
    /\ lives = <<>>
    /\ stdout = ""
    /\ ev = Event("init", 0, 0, None, NoExc)
    /\ view = [data |-> <<>>, out |-> ""]

(***************************************************************************)
(* Interactive progress bars on shared display contexts.                   *)
(***************************************************************************)
NextBars ==
    \/ \E p \in ProgressIds : ProgressNew(p)
    \/ \E p \in ProgressIds : ContextManagerEnter(p)
    \/ \E p \in ProgressIds : ContextManagerExit(p)
    \/ \E cm \in ContextManagers, v \in BOOLEAN :
          NewRichProgressBar("Test", cm, v)
    \/ \E b \in DOMAIN bars, f \in Fractions : UpdateTo(b, f)
    \/ \E b \in DOMAIN bars : Refresh(b)
    \/ \E b \in DOMAIN bars : Close(b)

SpecBars == Init /\ [][NextBars]_vars

\* Quiet progress bars.
NextQuietBars ==
    \/ \E d \in Descriptions : NewQuietProgressBar(d)
    \/ \E b \in DOMAIN bars, f \in Fractions : UpdateTo(b, f)
    \/ \E b \in DOMAIN bars : Refresh(b)
    \/ \E b \in DOMAIN bars : Close(b)

SpecQuietBars == Init /\ [][NextQuietBars]_vars


(***************************************************************************)
(* Properties of the interactive progress bar.                             *)
(***************************************************************************)
RichBars == {b \in DOMAIN bars : IsRich(b)}

\* C2: constructing a RichProgressBar with a context_manager that is None or
\* anything but a Progress instance raises CondaError with the message
\* "Rich is configured, but there is no progress bar available", registers
\* no task in any display context and produces no handle.
C2_MisconfiguredRaises ==
    [][(ev'.op = "RichProgressBar" /\ ~IsProgress(ev'.cm)) =>
          /\ ev'.exc = [type |-> "CondaError",
                        msg |-> "Rich is configured, but there is no progress bar available"]
          /\ ev'.ret = None
          /\ progress' = progress
          /\ bars' = bars]_vars

\* A construction with something that is no Progress instance has just
\* failed while a display context with a registered task exists.
C2_Witness ==
    /\ ev.op = "RichProgressBar"
    /\ ev.cm = "NotAProgress"
    /\ ev.exc.type = "CondaError"
    /\ \E b \in RichBars : progress[bars[b].progress].live

\* C3: whenever the last update_to of an interactive bar had fraction 1,
\* the task's visibility is the bar's visible_when_finished flag; and right
\* after any update_to the task's completed amount is the fraction given.
C3_FinishedVisibility ==
    /\ \A b \in RichBars :
          TaskOf(b).completed = 100 =>
              TaskOf(b).visible = bars[b].visible_when_finished
    /\ (ev.op = "update_to" /\ IsRich(ev.obj)) =>
          TaskOf(ev.obj).completed = ev.arg

\* Two bars were updated through a fraction below 1 up to 1, one with
\* visible_when_finished and one without; the last call was update_to(1).
C3_Witness ==
    /\ ev.op = "update_to"
    /\ ev.arg = 100
    /\ \E b1, b2 \in RichBars :
          /\ bars[b1].visible_when_finished
          /\ TaskOf(b1).completed = 100
          /\ TaskOf(b1).visible
          /\ ~bars[b2].visible_when_finished
          /\ TaskOf(b2).completed = 100
          /\ ~TaskOf(b2).visible

\* The task slot the handle b owns is slot t of display context p.
Owns(b, p, t) ==
    IsRich(b) /\ bars[b].progress = p /\ bars[b].task = t

\* C6: close() and update_to() on one bar leave every display context as
\* live as it was and every other bar's task (completed amount, visibility,
\* started/stopped status) unchanged; close() stops the bar's own task and
\* nothing else of it.
C6_CloseAndUpdateAreLocal ==
    [][(ev'.op \in {"close", "update_to"}) =>
          /\ bars' = bars
          /\ \A p \in ProgressIds :
                /\ progress'[p].made = progress[p].made
                /\ progress'[p].live = progress[p].live
                /\ DOMAIN progress'[p].tasks = DOMAIN progress[p].tasks
                /\ \A t \in DOMAIN progress[p].tasks :
                      \/ Owns(ev'.obj, p, t)
                      \/ progress'[p].tasks[t] = progress[p].tasks[t]
          /\ (ev'.op = "close" /\ IsRich(ev'.obj)) =>
                LET p == bars[ev'.obj].progress
                    t == bars[ev'.obj].task
                IN  progress'[p].tasks[t] =
                        [progress[p].tasks[t] EXCEPT !.stopped = TRUE]]_vars

\* One bar of a live display context has just been closed while another
\* bar of the same context is in progress and not stopped.
C6_Witness ==
    /\ ev.op = "close"
    /\ IsRich(ev.obj)
    /\ TaskOf(ev.obj).stopped
    /\ progress[bars[ev.obj].progress].live
    /\ \E b \in RichBars :
          /\ b # ev.obj
          /\ bars[b].progress = bars[ev.obj].progress
          /\ TaskOf(b).completed = 50
          /\ ~TaskOf(b).stopped


(***************************************************************************)
(* The specifications.                                                     *)
(***************************************************************************)
\* Spinners used in with statements, nested or one after the other.
NextSpinners ==
    \/ \E m \in Messages, f \in FailMessages : NewQuietSpinner(m, f)
    \/ \E m \in Messages, f \in FailMessages : NewRichSpinner(m, f)
    \/ \E s \in DOMAIN spinners : Enter(s)
    \/ \E s \in DOMAIN spinners, exc \in {NoExc} \cup BodyErrors : Exit(s, exc)

SpecSpinners == Init /\ [][NextSpinners]_vars

\* The renderer's factories under a quiet flag the host changes.
NextRenderer ==
    \/ \E b \in BOOLEAN : SetQuiet(b)
    \/ \E p \in ProgressIds : ContextManagerEnter(p)
    \/ \E d \in Descriptions, cm \in ContextManagers :
          RendererProgressBar(d, cm, FALSE)
    \/ \E m \in Messages : RendererSpinner(m, "failed\n")

SpecRenderer == Init /\ [][NextRenderer]_vars

\* detail_view on every dict within the bounds.
NextView == \E data \in Dicts : DetailView(data)

SpecView == Init /\ [][NextView]_vars

\* The whole backend.
Next ==
    \/ NextBars
    \/ NextQuietBars
    \/ NextSpinners
    \/ NextRenderer
    \/ NextView

Spec == Init /\ [][Next]_vars


\* C9: (a) once close() has been called on an interactive bar, no later
\* update_to, refresh or close on that handle changes its task; (b) a
\* spinner that has exited acquires no display surface again through the
\* same handle.
C9_NoReuseAfterClose ==
    [][/\ \A b \in DOMAIN bars :
             (/\ IsRich(b)
              /\ TaskOf(b).stopped
              /\ ev'.op \in {"update_to", "refresh", "close"}
              /\ ev'.obj = b) =>
                 progress'[bars[b].progress].tasks[bars[b].task] = TaskOf(b)
       /\ \A s \in DOMAIN spinners :
             (/\ spinners[s].cls = "RichSpinner"
              /\ spinners[s].live # 0
              /\ ~spinners[s].in_scope) =>
                 spinners'[s].live = spinners[s].live]_vars

(***************************************************************************)
(* Properties of the quiet progress bar.                                   *)
(***************************************************************************)
RECURSIVE DownloadingLines(_)
DownloadingLines(handles) ==
    IF handles = <<>> THEN ""
    ELSE (("...downloading " \o Head(handles).description) \o "...\n")
             \o DownloadingLines(Tail(handles))

\* C7: each QuietProgressBar(X) writes the one line "...downloading X...\n"
\* when it is constructed, and update_to, refresh and close on it return
\* None and write nothing: standard output is exactly the construction
\* lines of the bars made so far, whatever was called on them since.
C7_QuietBarOneLine ==
    /\ stdout = DownloadingLines(bars)
    /\ ev.op \in {"update_to", "refresh", "close"} => ev.ret = "None"
    /\ \A p \in ProgressIds : progress[p].tasks = <<>>

\* A quiet bar for "X" was made, then updated, refreshed and closed, and
\* standard output is still its one line.
C7_Witness ==
    /\ Len(bars) = 1
    /\ bars[1].cls = "QuietProgressBar"
    /\ ev.op = "close"
    /\ ev.obj = 1
    /\ stdout = "...downloading X...\n"

(***************************************************************************)
(* Properties of the renderer's dispatch.                                  *)
(***************************************************************************)
\* C1: progress_bar returns the quiet bar exactly when context.quiet is
\* true at that call, and otherwise constructs the interactive one (which
\* is what it returns whenever it is given a Progress instance); spinner
\* returns the quiet spinner exactly when context.quiet is true at that
\* call and the interactive one otherwise.
C1_QuietReadAtCall ==
    /\ ev.op = "progress_bar" =>
          /\ (ev.ret = "QuietProgressBar") <=> quiet
          /\ ~quiet =>
                IF IsProgress(ev.cm)
                THEN ev.ret = "RichProgressBar"
                ELSE ev.ret = "None" /\ ev.exc.type = "CondaError"
          /\ ev.ret # "None" => bars[ev.obj].cls = ev.ret
    /\ ev.op = "spinner" =>
          /\ (ev.ret = "QuietSpinner") <=> quiet
          /\ (ev.ret = "RichSpinner") <=> ~quiet
          /\ spinners[ev.obj].cls = ev.ret

\* The flag was changed between the calls: one renderer has returned an
\* interactive and then a quiet bar, and a quiet and then an interactive
\* spinner.
C1_Witness ==
    /\ ev.op = "spinner"
    /\ ~quiet
    /\ Len(bars) = 2
    /\ bars[1].cls = "RichProgressBar"
    /\ bars[2].cls = "QuietProgressBar"
    /\ Len(spinners) = 2
    /\ spinners[1].cls = "QuietSpinner"
    /\ spinners[2].cls = "RichSpinner"

(***************************************************************************)
(* Properties of the spinners.                                             *)
(***************************************************************************)
IsQuietSpinner(s) == spinners[s].cls = "QuietSpinner"

\* C4: a quiet spinner's scope writes "{message}: ...working... " on entry;
\* on exit without error it writes "done\n"; on exit with an error it
\* writes "{fail_message}\n" and that same error reaches the caller.
C4_QuietSpinnerScope ==
    [][/\ (ev'.op = "enter" /\ IsQuietSpinner(ev'.obj)) =>
             stdout' = (stdout \o spinners[ev'.obj].message)
                           \o ": ...working... "
       /\ (ev'.op = "exit" /\ IsQuietSpinner(ev'.obj)) =>
             IF ev'.arg = NoExc
             THEN /\ stdout' = stdout \o "done\n"
                  /\ ev'.exc = NoExc
             ELSE /\ stdout' = (stdout \o spinners[ev'.obj].fail_message)
                                   \o "\n"
                  /\ ev'.exc = ev'.arg]_vars

\* One quiet spinner's scope has just been left through an error, and all
\* of standard output is the line the claim gives.
C4_Witness ==
    /\ ev.op = "exit"
    /\ IsQuietSpinner(ev.obj)
    /\ ev.exc = [type |-> "Exception", msg |-> "Test fail"]
    /\ spinners[ev.obj].fail_message = "testing fail message"
    /\ stdout = "test: ...working... testing fail message\n"

C10_FailMessageAsIs ==
    [][(ev'.op = "exit" /\ IsQuietSpinner(ev'.obj)) =>
          stdout' = stdout \o (IF ev'.arg = NoExc THEN "done\n"
                               ELSE spinners[ev'.obj].fail_message)]_vars

(***************************************************************************)
(* Properties of detail_view.                                              *)
(***************************************************************************)
NoLineBreak(text) ==
    \A i \in 1..Len(text) : SubSeq(text, i, i) # "\n"

\* str.splitlines(): the lines of text, each ended by "\n" or by the end.
RECURSIVE SplitLines(_)
SplitLines(text) ==
    IF text = "" THEN <<>>
    ELSE LET brk == {i \in 1..Len(text) : SubSeq(text, i, i) = "\n"}
         IN  IF brk = {} THEN <<text>>
             ELSE LET i == CHOOSE j \in brk : \A k \in brk : j <= k
                  IN  <<SubSeq(text, 1, i - 1)>>
                          \o SplitLines(SubSeq(text, i + 1, Len(text)))

Widest(data) ==
    CHOOSE n \in {Len(data[i].key) : i \in DOMAIN data} :
        \A i \in DOMAIN data : Len(data[i].key) <= n

\* The frame of the table: len(data) + 2 lines, the first and last blank.
Framed(data, lines) ==
    /\ Len(lines) = Len(data) + 2
    /\ lines[1] = ""
    /\ lines[Len(data) + 2] = ""

\* C8 as stated: for every non-empty mapping the output has len(data) + 2
\* lines (a blank one, a row per entry in insertion order, a blank one) and
\* each key is padded on its right to the width of the longest key.
C8_RightPadded ==
    (ev.op = "detail_view" /\ Len(view.data) > 0) =>
        LET lines == SplitLines(view.out)
        IN  /\ Framed(view.data, lines)
            /\ \A i \in DOMAIN view.data :
                  lines[i + 1] =
                      (((" " \o view.data[i].key)
                          \o Spaces(Widest(view.data) - Len(view.data[i].key)))
                          \o " : ") \o Str(view.data[i].value)

\* C8 amended: for every non-empty mapping whose keys and values hold no
\* line break the output has len(data) + 2 lines (a blank one, a row per
\* entry in insertion order, a blank one), and in its row each key stands
\* at the right end of a field as wide as the longest key, spaces before it.
C8_RightAligned ==
    (/\ ev.op = "detail_view"
     /\ Len(view.data) > 0
     /\ \A i \in DOMAIN view.data :
           NoLineBreak(view.data[i].key) /\ NoLineBreak(Str(view.data[i].value))) =>
        LET lines == SplitLines(view.out)
            w == Widest(view.data)
        IN  /\ ev.exc = NoExc
            /\ Framed(view.data, lines)
            /\ \A i \in DOMAIN view.data :
                  LET row == lines[i + 1]
                      key == view.data[i].key
                      pad == w - Len(key)
                  IN  /\ Len(row) = (w + 4) + Len(Str(view.data[i].value))
                      /\ \A k \in 1..(pad + 1) : SubSeq(row, k, k) = " "
                      /\ SubSeq(row, pad + 2, Len(row)) =
                             (key \o " : ") \o Str(view.data[i].value)

\* Two keys of different lengths: the shorter one is moved to the right.
C8_Witness ==
    /\ ev.op = "detail_view"
    /\ Len(view.data) = 2
    /\ view.data[1].key = "a"
    /\ view.data[2].key = "field_one"
    /\ view.out = "\n         a : one\n field_one : 7\n\n"

=============================================================================
